---- MODULE Spec2Model ----
(***************************************************************************)
(* A model of the pull-based iterator library of iterator.h together with  *)
(* its Array source (data_structures/array.h).                             *)
(*                                                                         *)
(* An iterator object is a record whose "kind" field names its C++ type    *)
(* and whose other fields are the data members of that type.  Every        *)
(* next() method is an operator that takes the object and returns the      *)
(* object after the call (self) and the std::optional it returned (v).     *)
(* std::nullopt is the empty sequence and an engaged optional holding x is *)
(* the one-element sequence <<x>>.                                         *)
(*                                                                         *)
(* The state machine is a driver in the style of tests/iterator_test.cpp:  *)
(* it fills up to three Arrays, builds one iterator pipeline over them and *)
(* then calls next() (and the terminal count()) on that pipeline, keeping  *)
(* the items it was handed.  It may also run one other terminal operation  *)
(* on the pipeline, or clone the pipeline and call next() on the clone.    *)
(* A second source is Range (data_structures/range.h).                     *)
(*                                                                         *)
(* A callable handed to an adapter is a function of the model (a predicate *)
(* is the set of items it accepts).  Where a claim speaks of how often a   *)
(* callable is invoked or the inner iterator is pulled, the adapter record *)
(* carries that as an extra field (applied, evals, pulls, log): a record   *)
(* that is stored by value in the adapter, like a functor that counts its  *)
(* invocations, and so is copied with it.                                  *)
(***************************************************************************)
EXTENDS Integers, Sequences, FiniteSets, TLC

\* ------------------------------------------------------------------ bounds
MaxLen == 3          \* longest Array the driver fills
MaxVal == 1          \* Array elements are drawn from 0..MaxVal
MaxNum == 4          \* largest size_t argument handed to step_by/skip/take
MaxLenNested == 2    \* longest Array in the three-operand chain pipelines
MaxSepLen == 2       \* longest character array a separator of join points into
RangeBits == 3       \* width of the unsigned integer type T of Range<T>

Values == 0..MaxVal
Nums == 0..MaxNum
Predicates == SUBSET Values   \* a total side-effect-free predicate is the set of items it accepts
Functions == [Values -> Values]   \* the mappers and key functions handed to map / unique_by
Identity == [x \in Values |-> x]
\* the two-argument choosers handed to max_by / min_by
Choosers == {"greater", "less", "candidate", "best"}
\* the folding functions and the initial values handed to fold
Folders == {"plus", "horner", "minus", "keep"}
Inits == Values
\* A std::string_view handed to join: buf is the character array data()
\* points to, up to its terminating NUL, and len the length of the view.  The
\* view is the first len characters of buf (std::string_view(", ", 1) is ",").
SepChars == {",", ";"}
Seps ==
  UNION {[buf : [1..m -> SepChars], len : 0..m] : m \in 0..MaxSepLen}

\* the values of T: 0 .. 2^RangeBits - 1
TMax == 2 ^ RangeBits - 1
TValues == 0..TMax

SeqsUpTo(k) == UNION {[1..m -> Values] : m \in 0..k}
Arrays == SeqsUpTo(MaxLen)
ArraysNested == SeqsUpTo(MaxLenNested)
MaxCalls == 2 * MaxLen + 2    \* next() calls the driver makes on an unbounded pipeline

VARIABLES
  arr,     \* the Arrays A, B, C: arr[name] is the data of Array `name`
  sc,      \* which pipeline the driver built
  num,     \* the size_t argument of the pipeline (step, skip, take amount;
           \* for "Cycle": the number of items pulled before cycle() was called)
  pred,    \* the predicate argument of the pipeline
  it,      \* the iterator object under test
  out,     \* the items next() has returned so far, in order
  last,    \* the optional returned by the latest next() call
  calls,   \* the number of next() calls made on `it` by the driver
  cnt,     \* <<>> until count() was called on `it`, then <<calls at that time, result>>
  func,    \* the function argument of the pipeline (mapper, key function)
  term,    \* <<>> until another terminal operation was called on `it`, then the
           \* driver's record of that call (see Called)
  cl       \* <<>> until the driver cloned `it`, then <<[at, base, snap, it, out,
           \* calls]>>: calls and Len(out) when clone() was called, `it` as it was
           \* then, the clone, the items the clone yielded and the next() calls
           \* made on the clone

vars == <<arr, sc, num, pred, it, out, last, calls, cnt, func, term, cl>>

\* ----------------------------------------------------------- std::optional
None == <<>>
Some(x) == <<x>>
Res(self, v) == [self |-> self, v |-> v]

Min(a, b) == IF a < b THEN a ELSE b
Prefix(s, k) == SubSeq(s, 1, Min(k, Len(s)))

\* ------------------------------------------------------------ constructors
ArrayIterator(cont) == [kind |-> "ArrayIterator", cont |-> cont, cursor |-> 0]
StepBy(inner, step) == [kind |-> "StepBy", inner |-> inner, step |-> step]
Skip(inner, skip) == [kind |-> "Skip", inner |-> inner, skip |-> skip]
Filter(inner, p) == [kind |-> "Filter", inner |-> inner, predicate |-> p]
Chain(first, second) == [kind |-> "Chain", first |-> first, second |-> second]
Zip(first, second) == [kind |-> "Zip", first |-> first, second |-> second, log |-> <<>>]
Take(inner, n) == [kind |-> "Take", inner |-> inner, num |-> n, pulls |-> 0]

\* a Cycle that preserves the iterator rewound to the start of its Array
Cycle_PreservesRewound(inner) ==
  [kind |-> "Cycle", original |-> [inner EXCEPT !.cursor = 0], inner |-> inner]

\* Cycle keeps two copies of the iterator it is built from
Cycle(inner) == [kind |-> "Cycle", original |-> inner, inner |-> inner]

Interleave(first, second) ==
  [kind |-> "Interleave", first |-> first, second |-> second, yield_first |-> TRUE]
InterleaveShortest(first, second) ==
  [kind |-> "InterleaveShortest", first |-> first, second |-> second, yield_first |-> TRUE]

Map(inner, mapper) == [kind |-> "Map", inner |-> inner, mapper |-> mapper, applied |-> 0]
SkipWhile(inner, p) ==
  [kind |-> "SkipWhile", inner |-> inner, predicate |-> p, skipped |-> FALSE, evals |-> <<>>]
Enumerate(inner) == [kind |-> "Enumerate", inner |-> inner, index |-> 0]
TakeWhile(inner, p) ==
  [kind |-> "TakeWhile", inner |-> inner, predicate |-> p, stopped_taking |-> FALSE,
   evals |-> <<>>, pulls |-> 0]
\* Range<T>::RangeIterator: a reference to the Range and the cursor
RangeIterator(range) == [kind |-> "RangeIterator", range |-> range, cursor |-> range.start]
Unique(inner) == [kind |-> "Unique", inner |-> inner, set |-> {}]
UniqueBy(inner, f) == [kind |-> "UniqueBy", inner |-> inner, set |-> {}, func |-> f]

\* ------------------------------------------------------------------ next()
RECURSIVE next(_)

ArrayIterator_next(self) ==
  IF self.cursor < Len(arr[self.cont])
    THEN Res([self EXCEPT !.cursor = @ + 1], Some(arr[self.cont][self.cursor + 1]))
    ELSE Res(self, None)

\* ++cursor is done in T: past the largest value it wraps around to 0
RangeIterator_next(self) ==
  IF self.cursor <= self.range.end
    THEN Res([self EXCEPT !.cursor = (@ + 1) % (TMax + 1)], Some(self.cursor))
    ELSE Res(self, None)

\* The discard loop of StepBy::next: for (i = 1; i != step; ++i) with a break
\* on exhaustion.  It returns the inner iterator after the loop.  With step = 0
\* the size_t counter would have to wrap around 2^64 before it equals step, so
\* on every source of fewer than 2^64 items the loop ends by the break.
RECURSIVE StepBy_discard(_, _, _)
\* the discard loop with the test `i < step`: it discards nothing when step is 0
StepBy_discard_TestsLessThan(inner, i, step) ==
  IF ~(i < step) THEN inner
  ELSE LET r == next(inner)
       IN IF r.v = None THEN r.self ELSE StepBy_discard(r.self, i + 1, step)

StepBy_discard(inner, i, step) ==
  IF i = step THEN inner
  ELSE LET r == next(inner)
       IN IF r.v = None THEN r.self ELSE StepBy_discard(r.self, i + 1, step)

\* StepBy::next with the discard loop started at 0: step items are dropped
StepBy_next_DiscardsStep(self) ==
  LET r == next(self.inner)
  IN IF r.v # None
       THEN Res([self EXCEPT !.inner = StepBy_discard(r.self, 0, self.step)], r.v)
       ELSE Res([self EXCEPT !.inner = r.self], r.v)

StepBy_next(self) ==
  LET r == next(self.inner)
  IN IF r.v # None
       THEN Res([self EXCEPT !.inner = StepBy_discard(r.self, 1, self.step)], r.v)
       ELSE Res([self EXCEPT !.inner = r.self], r.v)

\* The loop of Skip::next: for (i = 0; i != skip; ++i) inner.next();
RECURSIVE Skip_discard(_, _, _)
Skip_discard(inner, i, skip) ==
  IF i = skip THEN inner ELSE Skip_discard(next(inner).self, i + 1, skip)

\* Skip::next without `skip = 0`: the discard is repeated on every call
Skip_next_KeepsSkip(self) ==
  LET skipped == IF self.skip # 0 THEN Skip_discard(self.inner, 0, self.skip)
                                  ELSE self.inner
      r == next(skipped)
  IN Res([self EXCEPT !.inner = r.self], r.v)

Skip_next(self) ==
  LET skipped == IF self.skip # 0 THEN Skip_discard(self.inner, 0, self.skip)
                                  ELSE self.inner
      r == next(skipped)
  IN Res([self EXCEPT !.inner = r.self, !.skip = 0], r.v)

\* The do-while loop of Filter::next; returns the result of the last pull.
RECURSIVE Filter_loop(_, _)
Filter_loop(inner, predicate) ==
  LET r == next(inner)
  IN IF r.v # None /\ ~(r.v[1] \in predicate) THEN Filter_loop(r.self, predicate)
                                                ELSE r

\* Filter::next without the loop: the first pulled item is returned untested
Filter_next_NoLoop(self) ==
  LET r == next(self.inner)
  IN Res([self EXCEPT !.inner = r.self], r.v)

Filter_next(self) ==
  LET r == Filter_loop(self.inner, self.predicate)
  IN Res([self EXCEPT !.inner = r.self], r.v)

\* Chain::next with the operands exchanged: second is pulled before first
Chain_next_SecondFirst(self) ==
  LET r2 == next(self.second)
  IN IF r2.v = None
       THEN LET r1 == next(self.first)
            IN Res([self EXCEPT !.first = r1.self, !.second = r2.self], r1.v)
       ELSE Res([self EXCEPT !.second = r2.self], r2.v)

Chain_next(self) ==
  LET r1 == next(self.first)
  IN IF r1.v = None
       THEN LET r2 == next(self.second)
            IN Res([self EXCEPT !.first = r1.self, !.second = r2.self], r2.v)
       ELSE Res([self EXCEPT !.first = r1.self], r1.v)

\* Zip::next that keeps going on the first item alone when second is exhausted
Zip_next_IgnoresSecondEnd(self) ==
  LET r1 == next(self.first)
  IN IF r1.v # None
       THEN LET r2 == next(self.second)
            IN Res([self EXCEPT !.first = r1.self, !.second = r2.self,
                                !.log = <<"first", "second">>],
                   Some(<<r1.v[1], IF r2.v # None THEN r2.v[1] ELSE r1.v[1]>>))
       ELSE Res([self EXCEPT !.first = r1.self, !.log = <<"first">>], None)

\* Zip::next that pulls both operands before it looks at either result
Zip_next_PullsBoth(self) ==
  LET r1 == next(self.first)
      r2 == next(self.second)
  IN Res([self EXCEPT !.first = r1.self, !.second = r2.self, !.log = <<"first", "second">>],
         IF r1.v # None /\ r2.v # None THEN Some(<<r1.v[1], r2.v[1]>>) ELSE None)

\* Zip::next.  log is the operands the call pulled, in the order of the pulls.
Zip_next(self) ==
  LET r1 == next(self.first)
  IN IF r1.v # None
       THEN LET r2 == next(self.second)
                after == [self EXCEPT !.first = r1.self, !.second = r2.self,
                                      !.log = <<"first", "second">>]
            IN IF r2.v # None
                 THEN Res(after, Some(<<r1.v[1], r2.v[1]>>))
                 ELSE Res(after, None)
       ELSE Res([self EXCEPT !.first = r1.self, !.log = <<"first">>], None)

\* Take::next that tests the count after the decrement: one item too few
Take_next_OffByOne(self) ==
  IF self.num > 1
    THEN LET r == next(self.inner)
         IN Res([self EXCEPT !.num = @ - 1, !.inner = r.self, !.pulls = @ + 1], r.v)
    ELSE Res([self EXCEPT !.num = 0], None)

\* Take::next that pulls the inner iterator before it looks at the count
Take_next_PullsAtZero(self) ==
  LET r == next(self.inner)
  IN IF self.num # 0
       THEN Res([self EXCEPT !.num = @ - 1, !.inner = r.self, !.pulls = @ + 1], r.v)
       ELSE Res([self EXCEPT !.inner = r.self, !.pulls = @ + 1], None)

\* Take::next that decrements the count only when the inner iterator yielded
Take_next_CountsItems(self) ==
  IF self.num # 0
    THEN LET r == next(self.inner)
         IN Res([self EXCEPT !.num = IF r.v # None THEN @ - 1 ELSE @,
                             !.inner = r.self, !.pulls = @ + 1], r.v)
    ELSE Res(self, None)

\* Take::next: `--num; return inner.next();` while num != 0.  pulls counts the
\* inner.next() calls the object has made.
Take_next(self) ==
  IF self.num # 0
    THEN LET r == next(self.inner)
         IN Res([self EXCEPT !.num = @ - 1, !.inner = r.self, !.pulls = @ + 1], r.v)
    ELSE Res(self, None)

\* Cycle::next without the restart from `original`
Cycle_next_NoRestart(self) ==
  LET r == next(self.inner)
  IN Res([self EXCEPT !.inner = r.self], r.v)

\* Cycle::next that resets `inner = original` but returns the empty pull
Cycle_next_ResetOnly(self) ==
  LET r == next(self.inner)
  IN IF r.v # None
       THEN Res([self EXCEPT !.inner = r.self], r.v)
       ELSE Res([self EXCEPT !.inner = self.original], r.v)

Cycle_next(self) ==
  LET r == next(self.inner)
  IN IF r.v # None
       THEN Res([self EXCEPT !.inner = r.self], r.v)
       ELSE LET r2 == next(self.original)
            IN Res([self EXCEPT !.inner = r2.self], r2.v)

\* Interleave::next without the fallback to the other side
Interleave_next_NoFallback(self) ==
  LET r1 == IF self.yield_first THEN next(self.first) ELSE next(self.second)
      s1 == IF self.yield_first THEN [self EXCEPT !.first = r1.self]
                                ELSE [self EXCEPT !.second = r1.self]
  IN Res([s1 EXCEPT !.yield_first = ~@], r1.v)

Interleave_next(self) ==
  LET r1 == IF self.yield_first THEN next(self.first) ELSE next(self.second)
      s1 == IF self.yield_first THEN [self EXCEPT !.first = r1.self]
                                ELSE [self EXCEPT !.second = r1.self]
  IN IF r1.v = None
       THEN LET r2 == IF self.yield_first THEN next(s1.second) ELSE next(s1.first)
                s2 == IF self.yield_first THEN [s1 EXCEPT !.second = r2.self]
                                          ELSE [s1 EXCEPT !.first = r2.self]
            IN Res([s2 EXCEPT !.yield_first = ~@], r2.v)
       ELSE Res([s1 EXCEPT !.yield_first = ~@], r1.v)

\* InterleaveShortest::next that flips the due flag also on an empty pull
InterleaveShortest_next_AlwaysFlips(self) ==
  LET r == IF self.yield_first THEN next(self.first) ELSE next(self.second)
      s == IF self.yield_first THEN [self EXCEPT !.first = r.self]
                               ELSE [self EXCEPT !.second = r.self]
  IN Res([s EXCEPT !.yield_first = ~@], r.v)

InterleaveShortest_next(self) ==
  LET r == IF self.yield_first THEN next(self.first) ELSE next(self.second)
      s == IF self.yield_first THEN [self EXCEPT !.first = r.self]
                               ELSE [self EXCEPT !.second = r.self]
  IN IF r.v = None THEN Res(s, None)
                   ELSE Res([s EXCEPT !.yield_first = ~@], r.v)

\* Map::next that maps the mapped value once more
Map_next_MapsTwice(self) ==
  LET r == next(self.inner)
  IN IF r.v # None
       THEN Res([self EXCEPT !.inner = r.self, !.applied = @ + 2],
                Some(self.mapper[self.mapper[r.v[1]]]))
       ELSE Res([self EXCEPT !.inner = r.self], None)

\* `applied` counts the invocations of the mapper.
Map_next(self) ==
  LET r == next(self.inner)
  IN IF r.v # None
       THEN Res([self EXCEPT !.inner = r.self, !.applied = @ + 1], Some(self.mapper[r.v[1]]))
       ELSE Res([self EXCEPT !.inner = r.self], None)

\* The do-while loop of SkipWhile::next: the last pull and the items the
\* predicate was evaluated on, appended to evals.
RECURSIVE SkipWhile_loop(_, _, _)
SkipWhile_loop(inner, predicate, evals) ==
  LET r == next(inner)
  IN IF r.v = None THEN [r |-> r, evals |-> evals]
     ELSE IF r.v[1] \in predicate
            THEN SkipWhile_loop(r.self, predicate, Append(evals, r.v[1]))
            ELSE [r |-> r, evals |-> Append(evals, r.v[1])]

\* SkipWhile::next without `skipped = true`: every call skips again
SkipWhile_next_NeverCloses(self) ==
  LET l == SkipWhile_loop(self.inner, self.predicate, self.evals)
  IN Res([self EXCEPT !.inner = l.r.self, !.evals = l.evals], l.r.v)

SkipWhile_next(self) ==
  IF self.skipped
    THEN LET r == next(self.inner)
         IN Res([self EXCEPT !.inner = r.self], r.v)
    ELSE LET l == SkipWhile_loop(self.inner, self.predicate, self.evals)
         IN Res([self EXCEPT !.inner = l.r.self, !.evals = l.evals, !.skipped = TRUE], l.r.v)

\* Enumerate::next that pairs the item with the index after the increment
Enumerate_next_OneBased(self) ==
  LET r == next(self.inner)
  IN IF r.v # None
       THEN Res([self EXCEPT !.inner = r.self, !.index = @ + 1],
                Some(<<self.index + 1, r.v[1]>>))
       ELSE Res([self EXCEPT !.inner = r.self], None)

Enumerate_next(self) ==
  LET r == next(self.inner)
  IN IF r.v # None
       THEN Res([self EXCEPT !.inner = r.self, !.index = @ + 1],
                Some(<<(self.index + 1) - 1, r.v[1]>>))
       ELSE Res([self EXCEPT !.inner = r.self], None)

\* TakeWhile::next without `stopped_taking = true`
TakeWhile_next_NoLatch(self) ==
  LET r == next(self.inner)
      s == [self EXCEPT !.inner = r.self, !.pulls = @ + 1,
                        !.evals = IF r.v # None THEN Append(@, r.v[1]) ELSE @]
  IN IF r.v # None /\ r.v[1] \in self.predicate THEN Res(s, r.v) ELSE Res(s, None)

\* TakeWhile::next that latches only when the inner iterator is exhausted
TakeWhile_next_LatchesAtEndOnly(self) ==
  IF ~self.stopped_taking
    THEN LET r == next(self.inner)
             s == [self EXCEPT !.inner = r.self, !.pulls = @ + 1,
                               !.evals = IF r.v # None THEN Append(@, r.v[1]) ELSE @]
         IN IF r.v # None /\ r.v[1] \in self.predicate
              THEN Res(s, r.v)
              ELSE Res([s EXCEPT !.stopped_taking = (r.v = None)], None)
    ELSE Res(self, None)

\* `pulls` counts the calls of inner.next(), `evals` lists the items the
\* predicate was evaluated on (v.has_value() && predicate(*v) short-circuits).
TakeWhile_next(self) ==
  IF ~self.stopped_taking
    THEN LET r == next(self.inner)
             s == [self EXCEPT !.inner = r.self, !.pulls = @ + 1,
                               !.evals = IF r.v # None THEN Append(@, r.v[1]) ELSE @]
         IN IF r.v # None /\ r.v[1] \in self.predicate
              THEN Res(s, r.v)
              ELSE Res([s EXCEPT !.stopped_taking = TRUE], None)
    ELSE Res(self, None)

\* The while loop of Unique::next, entered with the first pull r: pull again
\* while the pulled item is already in the set.
RECURSIVE Unique_loop(_, _)
Unique_loop(r, set) ==
  IF r.v # None /\ r.v[1] \in set THEN Unique_loop(next(r.self), set) ELSE r

\* Unique::next without set.insert
Unique_next_NoInsert(self) ==
  LET r == Unique_loop(next(self.inner), self.set)
  IN Res([self EXCEPT !.inner = r.self], r.v)

Unique_next(self) ==
  LET r == Unique_loop(next(self.inner), self.set)
  IN Res([self EXCEPT !.inner = r.self,
                      !.set = IF r.v # None THEN @ \cup {r.v[1]} ELSE @], r.v)

\* The while loop of UniqueBy::next: as Unique's, on func(*v).
RECURSIVE UniqueBy_loop(_, _, _)
UniqueBy_loop(r, set, f) ==
  IF r.v # None /\ f[r.v[1]] \in set THEN UniqueBy_loop(next(r.self), set, f) ELSE r

\* UniqueBy::next that inserts the item instead of its key
UniqueBy_next_InsertsItem(self) ==
  LET r == UniqueBy_loop(next(self.inner), self.set, self.func)
  IN Res([self EXCEPT !.inner = r.self,
                      !.set = IF r.v # None THEN @ \cup {r.v[1]} ELSE @], r.v)

UniqueBy_next(self) ==
  LET r == UniqueBy_loop(next(self.inner), self.set, self.func)
  IN Res([self EXCEPT !.inner = r.self,
                      !.set = IF r.v # None THEN @ \cup {self.func[r.v[1]]} ELSE @], r.v)

\* The static dispatch it->next() of the CRTP base, by the object's type.
next(self) ==
  CASE self.kind = "ArrayIterator" -> ArrayIterator_next(self)
    [] self.kind = "RangeIterator" -> RangeIterator_next(self)
    [] self.kind = "StepBy" -> StepBy_next(self)
    [] self.kind = "Skip" -> Skip_next(self)
    [] self.kind = "Filter" -> Filter_next(self)
    [] self.kind = "Chain" -> Chain_next(self)
    [] self.kind = "Zip" -> Zip_next(self)
    [] self.kind = "Take" -> Take_next(self)
    [] self.kind = "Cycle" -> Cycle_next(self)
    [] self.kind = "Interleave" -> Interleave_next(self)
    [] self.kind = "InterleaveShortest" -> InterleaveShortest_next(self)
    [] self.kind = "Map" -> Map_next(self)
    [] self.kind = "SkipWhile" -> SkipWhile_next(self)
    [] self.kind = "Enumerate" -> Enumerate_next(self)
    [] self.kind = "TakeWhile" -> TakeWhile_next(self)
    [] self.kind = "Unique" -> Unique_next(self)
    [] self.kind = "UniqueBy" -> UniqueBy_next(self)

\* ------------------------------------------------- range-for and count()
\* begin() advances the object it is called on and returns a COPY of it that
\* carries the pulled item in `yielded`; the range-for loop then advances
\* that copy with operator++ until its `yielded` is empty.
begin(self) ==
  LET r == next(self) IN [it |-> r.self, yielded |-> r.v]

operator_inc(b) ==
  LET r == next(b.it) IN [it |-> r.self, yielded |-> r.v]

RECURSIVE count_loop(_, _)
count_loop(b, c) ==
  IF b.yielded = None THEN c ELSE count_loop(operator_inc(b), c + 1)

\* count() that misses the item pulled by begin()
count_SkipsFirst(self) ==
  LET b == begin(self) IN [self |-> b.it, n |-> count_loop(operator_inc(b), 0)]

\* count(): `self` is the object count() was called on, as it is left.
count(self) ==
  LET b == begin(self) IN [self |-> b.it, n |-> count_loop(b, 0)]

\* ------------------------------------------------------ all / any / none
\* The range-for loops of all, any and none, run on the copy b that begin()
\* returned: the result r and the items the predicate was evaluated on.
RECURSIVE all_loop(_, _, _)
\* the loop of all() with the test of any(): stops at the first accepted item
all_loop_StopsOnTrue(b, p, evals) ==
  IF b.yielded = None THEN [r |-> TRUE, evals |-> evals]
  ELSE IF b.yielded[1] \in p
         THEN [r |-> TRUE, evals |-> Append(evals, b.yielded[1])]
         ELSE all_loop(operator_inc(b), p, Append(evals, b.yielded[1]))

all_loop(b, p, evals) ==
  IF b.yielded = None THEN [r |-> TRUE, evals |-> evals]
  ELSE IF ~(b.yielded[1] \in p)
         THEN [r |-> FALSE, evals |-> Append(evals, b.yielded[1])]
         ELSE all_loop(operator_inc(b), p, Append(evals, b.yielded[1]))

RECURSIVE any_loop(_, _, _)
\* the loop of any() that notices the match one iteration late: it tests the
\* item after the match as well
any_loop_StopsOneLate(b, p, evals) ==
  IF b.yielded = None THEN [r |-> FALSE, evals |-> evals]
  ELSE IF b.yielded[1] \in p
         THEN LET n == operator_inc(b)
              IN [r |-> TRUE,
                  evals |-> Append(evals, b.yielded[1]) \o n.yielded]
         ELSE any_loop(operator_inc(b), p, Append(evals, b.yielded[1]))

any_loop(b, p, evals) ==
  IF b.yielded = None THEN [r |-> FALSE, evals |-> evals]
  ELSE IF b.yielded[1] \in p
         THEN [r |-> TRUE, evals |-> Append(evals, b.yielded[1])]
         ELSE any_loop(operator_inc(b), p, Append(evals, b.yielded[1]))

RECURSIVE none_loop(_, _, _)
none_loop(b, p, evals) ==
  IF b.yielded = None THEN [r |-> TRUE, evals |-> evals]
  ELSE IF b.yielded[1] \in p
         THEN [r |-> FALSE, evals |-> Append(evals, b.yielded[1])]
         ELSE none_loop(operator_inc(b), p, Append(evals, b.yielded[1]))

\* `self` is the object the operation was called on, as it is left.
all(self, p) ==
  LET b == begin(self)
      l == all_loop(b, p, <<>>)
  IN [self |-> b.it, r |-> l.r, evals |-> l.evals]

any(self, p) ==
  LET b == begin(self)
      l == any_loop(b, p, <<>>)
  IN [self |-> b.it, r |-> l.r, evals |-> l.evals]

none(self, p) ==
  LET b == begin(self)
      l == none_loop(b, p, <<>>)
  IN [self |-> b.it, r |-> l.r, evals |-> l.evals]

\* ------------------------------------------------------------------ find
\* The range-for loop of find: the optional it returns and the items the
\* predicate was evaluated on.
RECURSIVE find_loop(_, _, _)
\* the loop of find() without the test of p: it returns the first item
find_loop_IgnoresPredicate(b, p, evals) ==
  IF b.yielded = None THEN [r |-> None, evals |-> evals]
  ELSE [r |-> Some(b.yielded[1]), evals |-> Append(evals, b.yielded[1])]

find_loop(b, p, evals) ==
  IF b.yielded = None THEN [r |-> None, evals |-> evals]
  ELSE IF b.yielded[1] \in p
         THEN [r |-> Some(b.yielded[1]), evals |-> Append(evals, b.yielded[1])]
         ELSE find_loop(operator_inc(b), p, Append(evals, b.yielded[1]))

find(self, p) ==
  LET b == begin(self)
      l == find_loop(b, p, <<>>)
  IN [self |-> b.it, r |-> l.r, evals |-> l.evals]

\* ------------------------------------------------------------- max / min
\* max() and min() pull the first item with next() on the object itself and
\* then run a range-for over it.  `max` is the optional held so far and pos
\* the place in pull order (0 for the item of the first next()) of the item
\* it refers to; i is the place of b.yielded.  The loops are only run on
\* iterators that stay exhausted, so `max` is engaged whenever the body runs.
RECURSIVE max_loop(_, _, _, _)
\* the loop of max() with >= for >: a later equal item replaces the held one
max_loop_ReplacesOnTie(b, max, pos, i) ==
  IF b.yielded = None THEN [r |-> max, pos |-> pos]
  ELSE IF b.yielded[1] >= max[1]
         THEN max_loop(operator_inc(b), b.yielded, i, i + 1)
         ELSE max_loop(operator_inc(b), max, pos, i + 1)

max_loop(b, max, pos, i) ==
  IF b.yielded = None THEN [r |-> max, pos |-> pos]
  ELSE IF b.yielded[1] > max[1]
         THEN max_loop(operator_inc(b), b.yielded, i, i + 1)
         ELSE max_loop(operator_inc(b), max, pos, i + 1)

RECURSIVE min_loop(_, _, _, _)
min_loop(b, min, pos, i) ==
  IF b.yielded = None THEN [r |-> min, pos |-> pos]
  ELSE IF b.yielded[1] < min[1]
         THEN min_loop(operator_inc(b), b.yielded, i, i + 1)
         ELSE min_loop(operator_inc(b), min, pos, i + 1)

max(self) ==
  LET n == next(self)
      b == begin(n.self)
      l == max_loop(b, n.v, 0, 1)
  IN [self |-> b.it, r |-> l.r, pos |-> l.pos]

min(self) ==
  LET n == next(self)
      b == begin(n.self)
      l == min_loop(b, n.v, 0, 1)
  IN [self |-> b.it, r |-> l.r, pos |-> l.pos]

\* ------------------------------------------------------- max_by / min_by
\* cmp(lhs, rhs) for the choosers of the model: the greater argument (the
\* lambda of test_max_by_works), the lesser one (test_min_by_works), always
\* the first argument, always the second.
Choose(cmp, lhs, rhs) ==
  CASE cmp = "greater" -> IF lhs > rhs THEN lhs ELSE rhs
    [] cmp = "less" -> IF lhs < rhs THEN lhs ELSE rhs
    [] cmp = "candidate" -> lhs
    [] cmp = "best" -> rhs

\* What `UnwrapedItemType max = *next` names when the first item came from
\* self: an ArrayIterator yields std::reference_wrapper<T>, so `max` is a T&
\* to the element of the Array at the cursor and every `max = ...` stores
\* into that element.  Every other iterator here yields by value and `max`
\* is a local.
Borrowed(self) ==
  IF self.kind = "ArrayIterator"
    THEN <<[cont |-> self.cont, index |-> self.cursor + 1, value |-> 0]>>
    ELSE <<>>

\* The range-for loops of max_by and min_by: the value `max` holds after the
\* loop (held) and the argument pairs cmp was called with.
RECURSIVE max_by_loop(_, _, _, _)
\* the loop of max_by with the arguments of cmp swapped
max_by_loop_SwapsArguments(b, cmp, held, evals) ==
  IF b.yielded = None THEN [r |-> held, evals |-> evals]
  ELSE max_by_loop(operator_inc(b), cmp, Choose(cmp, held, b.yielded[1]),
                   Append(evals, <<held, b.yielded[1]>>))

max_by_loop(b, cmp, held, evals) ==
  IF b.yielded = None THEN [r |-> held, evals |-> evals]
  ELSE max_by_loop(operator_inc(b), cmp, Choose(cmp, b.yielded[1], held),
                   Append(evals, <<b.yielded[1], held>>))

RECURSIVE min_by_loop(_, _, _, _)
min_by_loop(b, cmp, held, evals) ==
  IF b.yielded = None THEN [r |-> held, evals |-> evals]
  ELSE min_by_loop(operator_inc(b), cmp, Choose(cmp, b.yielded[1], held),
                   Append(evals, <<b.yielded[1], held>>))

\* r is the returned optional, store the element of an Array the loop
\* assigned through `max` (with the value it holds at the end), if any.
max_by(self, cmp) ==
  LET n == next(self)
  IN IF n.v # None
       THEN LET b == begin(n.self)
                l == max_by_loop(b, cmp, n.v[1], <<>>)
            IN [self |-> b.it, r |-> Some(l.r), evals |-> l.evals,
                store |-> IF Borrowed(self) = <<>> THEN <<>>
                          ELSE <<[Borrowed(self)[1] EXCEPT !.value = l.r]>>]
       ELSE [self |-> n.self, r |-> None, evals |-> <<>>, store |-> <<>>]

min_by(self, cmp) ==
  LET n == next(self)
  IN IF n.v # None
       THEN LET b == begin(n.self)
                l == min_by_loop(b, cmp, n.v[1], <<>>)
            IN [self |-> b.it, r |-> Some(l.r), evals |-> l.evals,
                store |-> IF Borrowed(self) = <<>> THEN <<>>
                          ELSE <<[Borrowed(self)[1] EXCEPT !.value = l.r]>>]
       ELSE [self |-> n.self, r |-> None, evals |-> <<>>, store |-> <<>>]

\* ------------------------------------------------------------ sum / fold
\* func(acc, v) for the folding functions of the model.  The items and the
\* sequences of the model are so small that no result leaves the range of int.
Fold(f, acc, v) ==
  CASE f = "plus" -> acc + v
    [] f = "horner" -> 2 * acc + v
    [] f = "minus" -> acc - v
    [] f = "keep" -> acc

\* the range-for loop of sum: res = res + v
RECURSIVE sum_loop(_, _)
sum_loop(b, res) ==
  IF b.yielded = None THEN res ELSE sum_loop(operator_inc(b), res + b.yielded[1])

\* StrippedItemType res{} is value-initialised: 0
sum(self) ==
  LET b == begin(self) IN [self |-> b.it, r |-> sum_loop(b, 0), evals |-> <<>>]

\* the range-for loop of fold: res = func(res, v); evals are the argument pairs
RECURSIVE fold_loop(_, _, _, _)
\* the loop of fold with the arguments of func swapped
fold_loop_SwapsArguments(b, f, res, evals) ==
  IF b.yielded = None THEN [r |-> res, evals |-> evals]
  ELSE fold_loop(operator_inc(b), f, Fold(f, b.yielded[1], res),
                 Append(evals, <<b.yielded[1], res>>))

fold_loop(b, f, res, evals) ==
  IF b.yielded = None THEN [r |-> res, evals |-> evals]
  ELSE fold_loop(operator_inc(b), f, Fold(f, res, b.yielded[1]),
                 Append(evals, <<res, b.yielded[1]>>))

fold(self, init, f) ==
  LET b == begin(self)
      l == fold_loop(b, f, init, <<>>)
  IN [self |-> b.it, r |-> l.r, evals |-> l.evals]

\* ------------------------------------------------------------------ join
\* std::to_string of a non-negative int: its decimal digits
Digits == <<"0", "1", "2", "3", "4", "5", "6", "7", "8", "9">>
RECURSIVE to_string(_)
to_string(v) ==
  IF v < 10 THEN <<Digits[v + 1]>> ELSE to_string(v \div 10) \o <<Digits[(v % 10) + 1]>>

\* a - b in size_t: below zero the result wraps to 2^64 - n
size_sub(a, b) ==
  IF a >= b THEN [wrapped |-> FALSE, n |-> a - b] ELSE [wrapped |-> TRUE, n |-> b - a]

\* std::string::substr(0, len): len is clamped to the length of the string,
\* which a wrapped len (2^64 - n) exceeds for every string of the model
substr0(str, len) == IF len.wrapped THEN str ELSE Prefix(str, len.n)

\* the range-for loop of join: `sep.data()` is a const char*, so operator+
\* appends the characters up to the NUL, whatever the length of the view
RECURSIVE join_loop(_, _, _)
join_loop(b, sep, res) ==
  IF b.yielded = None THEN res
  ELSE join_loop(operator_inc(b), sep, res \o to_string(b.yielded[1]) \o sep.buf)

join(self, sep) ==
  LET b == begin(self)
      res == join_loop(b, sep, <<>>)
  IN [self |-> b.it, r |-> substr0(res, size_sub(Len(res), sep.len)), evals |-> <<>>]

\* -------------------------------------------------------------- for_each
\* for_each copies the object (`auto iter = *this`) and runs the range-for on
\* the copy: evals are the items func was applied to.
RECURSIVE for_each_loop(_, _)
for_each_loop(b, evals) ==
  IF b.yielded = None THEN evals ELSE for_each_loop(operator_inc(b), Append(evals, b.yielded[1]))

for_each(self) ==
  LET iter == self
      b == begin(iter)
  IN [self |-> self, r |-> <<>>, evals |-> for_each_loop(b, <<>>)]

\* --------------------------------------------------- range-for that returns
\* Whether the range-for over the copy b comes to an end: by exhaustion, or
\* by a `return` in its body on an item of `stop`.  The loop is deterministic,
\* so a copy that comes back to a state it was in before (seen) runs forever.
RECURSIVE Halts(_, _, _)
Halts(b, stop, seen) ==
  IF b.yielded = None THEN TRUE
  ELSE IF b.yielded[1] \in stop THEN TRUE
  ELSE IF b \in seen THEN FALSE
  ELSE Halts(operator_inc(b), stop, seen \cup {b})

\* ------------------------------------------- collect / Array::from_iterator
\* clone() that builds the copy of a Unique with a new, empty set
clone_EmptiesSet(self) == IF self.kind = "Unique" THEN [self EXCEPT !.set = {}] ELSE self

\* clone() returns a copy of the object: every adapter holds its inner
\* iterators, counters, flags, set and callables by value.
clone(self) == self

\* The foreach loop of from_iterator over iter.enumerate(): the (index, value)
\* pairs it assigns with arr[index] = value, in order.
RECURSIVE from_iterator_fill(_)
from_iterator_fill(e) ==
  LET r == next(e)
  IN IF r.v = None THEN <<>> ELSE <<r.v[1]>> \o from_iterator_fill(r.self)

\* The iterator a loop ran on (the copy of a range-for, the iterator of a
\* foreach) when the loop has ended: pulled until it returned nullopt.
RECURSIVE Exhaust(_)
Exhaust(self) ==
  LET r == next(self)
  IN IF r.v = None THEN r.self ELSE Exhaust(r.self)

\* the invocation record of the mapper of a pipeline whose last adapter is a
\* Map, also seen through the Enumerate that from_iterator puts around it
RECURSIVE Applied(_)
Applied(self) ==
  CASE self.kind = "Map" -> self.applied
    [] self.kind = "Enumerate" -> Applied(self.inner)
    [] OTHER -> 0

\* the invocations of the mapper that a loop over `self` makes
Invocations(self) == Applied(Exhaust(self)) - Applied(self)

\* from_iterator that keeps the clone it counted and fills from that clone
from_iterator_KeepsCountedClone(iter) ==
  LET c == count(clone(iter))
  IN [size |-> c.n, writes |-> from_iterator_fill(Enumerate(c.self)),
      applied |-> Invocations(clone(iter)) + Invocations(Enumerate(c.self))]

\* from_iterator without the clone: count() runs on the iterator that is filled from
from_iterator_CountsOriginal(iter) ==
  LET c == count(iter)
  IN [size |-> c.n, writes |-> from_iterator_fill(Enumerate(c.self)),
      applied |-> Invocations(iter) + Invocations(Enumerate(c.self))]

\* from_iterator in one pass: the Array grows with the items, nothing is counted
from_iterator_SinglePass(iter) ==
  [size |-> Len(from_iterator_fill(Enumerate(iter))),
   writes |-> from_iterator_fill(Enumerate(iter)),
   applied |-> Invocations(Enumerate(iter))]

\* from_iterator: the size of the Array it allocates, the writes it makes and
\* the invocations of the pipeline's mapper made by its two loops, the
\* range-for of count() over the clone and the foreach over iter.enumerate().
from_iterator(iter) ==
  [size |-> count(clone(iter)).n, writes |-> from_iterator_fill(Enumerate(iter)),
   applied |-> Invocations(clone(iter)) + Invocations(Enumerate(iter))]

\* Every write lands inside the allocated storage and every slot is written.
\* Otherwise the Array was written out of bounds or holds a slot that `new T[size]`
\* left without a value, and its content is not determined by the code.
Determined(r) ==
  /\ \A k \in 1..Len(r.writes) : r.writes[k][1] < r.size
  /\ \A i \in 0..(r.size - 1) : \E k \in 1..Len(r.writes) : r.writes[k][1] = i

\* the content of the Array after the writes (the last write to a slot wins)
Stored(r) ==
  [i \in 1..r.size |->
     LET k == CHOOSE k \in 1..Len(r.writes) :
                /\ r.writes[k][1] = i - 1
                /\ \A m \in (k + 1)..Len(r.writes) : r.writes[m][1] # i - 1
     IN r.writes[k][2]]

\* collect<Array>() hands *this to Array::from_iterator
collect(self) == from_iterator(self)

\* An iterator that never signals exhaustion: a Cycle whose preserved copy
\* still has an item, a RangeIterator whose cursor cannot exceed the end of
\* its Range.  A range-for over it does not return.
RECURSIVE Unbounded(_)
Unbounded(self) ==
  CASE self.kind = "Cycle" -> next(self.original).v # None
    [] self.kind = "RangeIterator" -> self.range.end = TMax
    [] self.kind = "Take" -> FALSE
    [] self.kind \in {"StepBy", "Skip", "Filter", "Map", "Enumerate"} -> Unbounded(self.inner)
    [] self.kind \in {"Chain", "Interleave"} -> Unbounded(self.first) \/ Unbounded(self.second)
    [] self.kind \in {"Zip", "InterleaveShortest"} -> Unbounded(self.first) /\ Unbounded(self.second)
    [] OTHER -> FALSE

\* -------------------------------------------------------------------- Init
\* A, B, C are the Arrays the driver fills; R is the Array collect() returns.
NoArrays == [a \in {"A", "B", "C", "R"} |-> <<>>]

StartF(s, a, n, p, f, i) ==
  /\ sc = s /\ arr = a /\ num = n /\ pred = p /\ func = f /\ it = i
  /\ out = <<>> /\ last = None /\ calls = 0 /\ cnt = <<>> /\ term = <<>> /\ cl = <<>>

Start(s, a, n, p, i) == StartF(s, a, n, p, Identity, i)

\* an ArrayIterator from which j items were already pulled
Pulled(cont, j) == [ArrayIterator(cont) EXCEPT !.cursor = j]

InitOne(s, a, n, p) ==
  LET src == ArrayIterator("A")
  IN CASE s = "Iter" -> Start(s, a, n, p, src)
       [] s = "StepBy" -> Start(s, a, n, p, StepBy(src, n))
       [] s = "Skip" -> Start(s, a, n, p, Skip(src, n))
       [] s = "Take" -> Start(s, a, n, p, Take(src, n))
       [] s = "Filter" -> Start(s, a, n, p, Filter(src, p))
       [] s = "CycleTake" -> Start(s, a, n, p, Take(Cycle(src), n))
       [] s = "Cycle" -> Start(s, a, n, p, Cycle(Pulled("A", n)))
       [] s = "Enumerate" -> Start(s, a, n, p, Enumerate(src))
       [] s = "Unique" -> Start(s, a, n, p, Unique(src))
       [] s = "SkipWhile" -> Start(s, a, n, p, SkipWhile(src, p))
       [] s = "TakeWhile" -> Start(s, a, n, p, TakeWhile(src, p))

\* the pipelines that take a function argument
InitFunc(s, a, p, f) ==
  LET src == ArrayIterator("A")
  IN CASE s = "Map" -> StartF(s, a, 0, p, f, Map(src, f))
       [] s = "UniqueBy" -> StartF(s, a, 0, p, f, UniqueBy(src, f))
       [] s = "FilterMap" -> StartF(s, a, 0, p, f, Map(Filter(src, p), f))

InitTwo(s, a) ==
  LET first == ArrayIterator("A")
      second == ArrayIterator("B")
  IN CASE s = "Zip" -> Start(s, a, 0, {}, Zip(first, second))
       [] s = "Chain" -> Start(s, a, 0, {}, Chain(first, second))
       [] s = "Interleave" -> Start(s, a, 0, {}, Interleave(first, second))
       [] s = "InterleaveShortest" -> Start(s, a, 0, {}, InterleaveShortest(first, second))

InitThree(s, a) ==
  LET ia == ArrayIterator("A")
      ib == ArrayIterator("B")
      ic == ArrayIterator("C")
  IN CASE s = "ChainLeft" -> Start(s, a, 0, {}, Chain(Chain(ia, ib), ic))
       [] s = "ChainRight" -> Start(s, a, 0, {}, Chain(ia, Chain(ib, ic)))

\* Range{start, end}.iter(); the constructor asserts start < end
InitRange(start, end) ==
  Start("Range", NoArrays, 0, {}, RangeIterator([start |-> start, end |-> end]))

Init ==
  \/ \E start \in TValues, end \in TValues : start < end /\ InitRange(start, end)
  \/ \E a \in Arrays :
       \/ InitOne("Iter", [NoArrays EXCEPT !.A = a], 0, {})
       \/ \E n \in Nums : \E s \in {"StepBy", "Skip", "Take", "CycleTake"} :
            InitOne(s, [NoArrays EXCEPT !.A = a], n, {})
       \/ \E p \in Predicates : \E s \in {"Filter", "SkipWhile", "TakeWhile"} :
            InitOne(s, [NoArrays EXCEPT !.A = a], 0, p)
       \/ \E s \in {"Enumerate", "Unique"} : InitOne(s, [NoArrays EXCEPT !.A = a], 0, {})
       \/ \E f \in Functions :
            \/ \E s \in {"Map", "UniqueBy"} : InitFunc(s, [NoArrays EXCEPT !.A = a], {}, f)
            \/ \E p \in Predicates : InitFunc("FilterMap", [NoArrays EXCEPT !.A = a], p, f)
       \/ \E j \in 0..Len(a) : InitOne("Cycle", [NoArrays EXCEPT !.A = a], j, {})
  \/ \E a \in Arrays, b \in Arrays :
       \E s \in {"Zip", "Chain", "Interleave", "InterleaveShortest"} :
         InitTwo(s, [NoArrays EXCEPT !.A = a, !.B = b])
  \/ \E a \in ArraysNested, b \in ArraysNested, c \in ArraysNested :
       \E s \in {"ChainLeft", "ChainRight"} :
         InitThree(s, [NoArrays EXCEPT !.A = a, !.B = b, !.C = c])

\* ----------------------------------------------------------------- actions
\* The driver stops calling next() two calls after a bounded pipeline must be
\* exhausted, and after MaxCalls calls on an unbounded one.
CallBound ==
  IF sc \in {"Cycle", "CycleTake"} THEN MaxCalls
  ELSE IF sc = "Range" THEN (it.range.end - it.range.start + 1) + 2
  ELSE Len(arr.A) + Len(arr.B) + Len(arr.C) + 2

\* The record the driver keeps of a terminal operation that returned: the
\* operation, the next() calls made before it, its argument, its result, the
\* items its callable saw (for collect: the (index, value) pairs the fill pass
\* assigned, with val the allocated size) and the content of Array A when it
\* was called; pos is the place in pull order of the item a returned reference
\* refers to, applied the invocations of the pipeline's mapper made by collect.
Called(op, p, val, evals) ==
  [op |-> op, at |-> calls, p |-> p, val |-> val, evals |-> evals, ret |-> TRUE,
   src |-> arr.A, pos |-> 0, applied |-> 0]

\* no call the driver made is still running
Returned == IF term = <<>> THEN TRUE ELSE term[1].ret

\* The driver's `auto v = it.next();` followed by recording v.
Pull(r) ==
  /\ calls < CallBound
  /\ Returned
  /\ it' = r.self
  /\ last' = r.v
  /\ calls' = calls + 1
  /\ out' = IF r.v = None THEN out ELSE Append(out, r.v[1])
  /\ UNCHANGED <<arr, sc, num, pred, cnt, func, term, cl>>

ArrayIteratorNext == it.kind = "ArrayIterator" /\ Pull(ArrayIterator_next(it))
RangeIteratorNext == it.kind = "RangeIterator" /\ Pull(RangeIterator_next(it))
StepByNext == it.kind = "StepBy" /\ Pull(StepBy_next(it))
SkipNext == it.kind = "Skip" /\ Pull(Skip_next(it))
FilterNext == it.kind = "Filter" /\ Pull(Filter_next(it))
ChainNext == it.kind = "Chain" /\ Pull(Chain_next(it))
ZipNext == it.kind = "Zip" /\ Pull(Zip_next(it))
TakeNext == it.kind = "Take" /\ Pull(Take_next(it))
CycleNext == it.kind = "Cycle" /\ Pull(Cycle_next(it))
InterleaveNext == it.kind = "Interleave" /\ Pull(Interleave_next(it))
InterleaveShortestNext == it.kind = "InterleaveShortest" /\ Pull(InterleaveShortest_next(it))
MapNext == it.kind = "Map" /\ Pull(Map_next(it))
SkipWhileNext == it.kind = "SkipWhile" /\ Pull(SkipWhile_next(it))
EnumerateNext == it.kind = "Enumerate" /\ Pull(Enumerate_next(it))
TakeWhileNext == it.kind = "TakeWhile" /\ Pull(TakeWhile_next(it))
UniqueNext == it.kind = "Unique" /\ Pull(Unique_next(it))
UniqueByNext == it.kind = "UniqueBy" /\ Pull(UniqueBy_next(it))

\* A terminal operation that was called and does not return: the driver is
\* left inside the call, with `self` the iterator as the call has left it by
\* the time it spins.  (A max_by that spins keeps storing into the Array; no
\* statement of the driver runs any more to see it.)
Hang(op, p, self) ==
  /\ cnt = <<>>
  /\ term = <<>>
  /\ cl = <<>>
  /\ it' = self
  /\ term' = <<[Called(op, p, <<>>, <<>>) EXCEPT !.ret = FALSE]>>
  /\ UNCHANGED <<arr, sc, num, pred, out, last, calls, cnt, func, cl>>

\* The driver's `size_t c = it.count();`.
Count ==
  IF Unbounded(it)
    THEN Hang("count", {}, begin(it).it)
    ELSE /\ cnt = <<>>
         /\ term = <<>>
         /\ cl = <<>>
         /\ LET r == count(it)
            IN /\ it' = r.self
               /\ cnt' = <<calls, r.n>>
         /\ UNCHANGED <<arr, sc, num, pred, out, last, calls, func, term, cl>>

\* The iterators the driver calls the other terminal operations on: an
\* iterator over Array A, and a Cycle over such an iterator.
Receivers == {"Iter", "Cycle"}

\* A terminal operation returns: t is the driver's record of it and self the
\* iterator as the call left it.
Return(t, self) ==
  /\ cnt = <<>>
  /\ term = <<>>
  /\ cl = <<>>
  /\ it' = self
  /\ term' = <<t>>
  /\ UNCHANGED <<arr, sc, num, pred, out, last, calls, cnt, func, cl>>

\* The driver's `bool b = it.all(p);` (any, none, ...)
Terminal(op, p, r) == Return(Called(op, p, r.r, r.evals), r.self)

AllCall ==
  /\ sc \in Receivers
  /\ \E p \in Predicates :
       IF Halts(begin(it), Values \ p, {})
         THEN Terminal("all", p, all(it, p))
         ELSE Hang("all", p, begin(it).it)
AnyCall ==
  /\ sc \in Receivers
  /\ \E p \in Predicates :
       IF Halts(begin(it), p, {})
         THEN Terminal("any", p, any(it, p))
         ELSE Hang("any", p, begin(it).it)
NoneCall ==
  /\ sc \in Receivers
  /\ \E p \in Predicates :
       IF Halts(begin(it), p, {})
         THEN Terminal("none", p, none(it, p))
         ELSE Hang("none", p, begin(it).it)
FindCall ==
  /\ sc \in Receivers
  /\ \E p \in Predicates :
       IF Halts(begin(it), p, {})
         THEN Terminal("find", p, find(it, p))
         ELSE Hang("find", p, begin(it).it)

MaxCall ==
  /\ sc \in Receivers
  /\ IF Unbounded(it)
       THEN Hang("max", {}, begin(next(it).self).it)
       ELSE LET r == max(it)
            IN Return([Called("max", {}, r.r, <<>>) EXCEPT !.pos = r.pos], r.self)
MinCall ==
  /\ sc \in Receivers
  /\ IF Unbounded(it)
       THEN Hang("min", {}, begin(next(it).self).it)
       ELSE LET r == min(it)
            IN Return([Called("min", {}, r.r, <<>>) EXCEPT !.pos = r.pos], r.self)

\* The driver's `auto m = it.max_by(cmp);` (min_by) returns: the call may
\* have stored into the Array.
ReturnBy(op, cmp, r) ==
  /\ cnt = <<>>
  /\ term = <<>>
  /\ cl = <<>>
  /\ it' = r.self
  /\ term' = <<Called(op, cmp, r.r, r.evals)>>
  /\ arr' = IF r.store = <<>> THEN arr
            ELSE [arr EXCEPT ![r.store[1].cont][r.store[1].index] = r.store[1].value]
  /\ UNCHANGED <<sc, num, pred, out, last, calls, cnt, func, cl>>

MaxByCall ==
  /\ sc \in Receivers
  /\ \E cmp \in Choosers :
       IF Unbounded(it)
         THEN Hang("max_by", cmp, begin(next(it).self).it)
         ELSE ReturnBy("max_by", cmp, max_by(it, cmp))
MinByCall ==
  /\ sc \in Receivers
  /\ \E cmp \in Choosers :
       IF Unbounded(it)
         THEN Hang("min_by", cmp, begin(next(it).self).it)
         ELSE ReturnBy("min_by", cmp, min_by(it, cmp))

ForEachCall ==
  /\ sc \in Receivers
  /\ IF Unbounded(it)
       THEN Hang("for_each", {}, it)
       ELSE Terminal("for_each", {}, for_each(it))
JoinCall ==
  /\ sc \in Receivers
  /\ \E sep \in Seps :
       IF Unbounded(it)
         THEN Hang("join", sep, begin(it).it)
         ELSE Terminal("join", sep, join(it, sep))
SumCall ==
  /\ sc \in Receivers
  /\ IF Unbounded(it)
       THEN Hang("sum", {}, begin(it).it)
       ELSE Terminal("sum", {}, sum(it))
FoldCall ==
  /\ sc \in Receivers
  /\ \E init \in Inits, f \in Folders :
       IF Unbounded(it)
         THEN Hang("fold", [init |-> init, func |-> f], begin(it).it)
         ELSE Terminal("fold", [init |-> init, func |-> f], fold(it, init, f))

\* The driver's `auto res = it.collect<Array>();`: the result is Array R.  The
\* iterator itself is only copied.  When the writes do not determine the
\* content of R, R may hold anything.  On an unbounded iterator the count of
\* the clone does not return.
Collect ==
  IF Unbounded(it)
    THEN Hang("collect", {}, it)
    ELSE /\ cnt = <<>>
         /\ term = <<>>
         /\ cl = <<>>
         /\ LET r == collect(it)
            IN /\ IF Determined(r)
                    THEN arr' = [arr EXCEPT !.R = Stored(r)]
                    ELSE \E a \in Arrays : arr' = [arr EXCEPT !.R = a]
               /\ term' = <<[Called("collect", {}, r.size, r.writes)
                              EXCEPT !.applied = r.applied]>>
         /\ UNCHANGED <<sc, num, pred, it, out, last, calls, cnt, func, cl>>

\* The pipelines the driver clones: the sources and the adapters over one Array.
CloneScenarios ==
  {"Iter", "Range", "StepBy", "Skip", "Take", "Enumerate", "Unique", "Filter", "SkipWhile",
   "TakeWhile", "Cycle", "CycleTake"}

\* The driver's `auto c = it.clone();`
Clone ==
  /\ sc \in CloneScenarios
  /\ cnt = <<>>
  /\ term = <<>>
  /\ cl = <<>>
  /\ cl' = <<[at |-> calls, base |-> Len(out), snap |-> it, it |-> clone(it),
              out |-> <<>>, calls |-> 0]>>
  /\ UNCHANGED <<arr, sc, num, pred, it, out, last, calls, cnt, func, term>>

\* The driver's `auto v = c.next();` on the clone, followed by recording v.
CloneNext ==
  /\ cl # <<>>
  /\ cl[1].calls < CallBound
  /\ LET r == next(cl[1].it)
     IN cl' = <<[cl[1] EXCEPT !.it = r.self, !.calls = @ + 1,
                              !.out = IF r.v = None THEN @ ELSE Append(@, r.v[1])]>>
  /\ UNCHANGED <<arr, sc, num, pred, it, out, last, calls, cnt, func, term>>

Next ==
  \/ ArrayIteratorNext
  \/ RangeIteratorNext
  \/ StepByNext
  \/ SkipNext
  \/ FilterNext
  \/ ChainNext
  \/ ZipNext
  \/ TakeNext
  \/ CycleNext
  \/ InterleaveNext
  \/ InterleaveShortestNext
  \/ MapNext
  \/ SkipWhileNext
  \/ EnumerateNext
  \/ TakeWhileNext
  \/ UniqueNext
  \/ UniqueByNext
  \/ Count
  \/ AllCall
  \/ AnyCall
  \/ NoneCall
  \/ FindCall
  \/ MaxCall
  \/ MinCall
  \/ MaxByCall
  \/ MinByCall
  \/ SumCall
  \/ JoinCall
  \/ ForEachCall
  \/ FoldCall
  \/ Collect
  \/ Clone
  \/ CloneNext

Spec == Init /\ [][Next]_vars

\* ------------------------------------------------ reference enumerations
\* The items an iterator hands out when a caller pulls it by hand until it
\* signals exhaustion, at most k of them: `while (auto v = i.next()) ...`.
RECURSIVE FirstItems(_, _)
FirstItems(i, k) ==
  IF k = 0 THEN <<>>
  ELSE LET r == next(i)
       IN IF r.v = None THEN <<>> ELSE <<r.v[1]>> \o FirstItems(r.self, k - 1)

\* The iterator after a caller pulled and discarded k items by hand.
RECURSIVE PullTimes(_, _)
PullTimes(i, k) == IF k = 0 THEN i ELSE PullTimes(next(i).self, k - 1)

LenA == Len(arr.A)
LenB == Len(arr.B)
LenC == Len(arr.C)
SrcA == ArrayIterator("A")
SrcB == ArrayIterator("B")
SrcC == ArrayIterator("C")
\* every item a bounded iterator over the Arrays still holds
Remaining(i) == FirstItems(i, LenA + LenB + LenC)
CeilDiv(a, b) == (a + b - 1) \div b

\* ---------------------------------------------------------------- C1
StepByExpected == [i \in 1..CeilDiv(LenA, num) |-> arr.A[(i - 1) * num + 1]]

\* C1: for every Array A and step n >= 1, the calls of next() on
\* A.iter().step_by(n) return the items of A at 0-based positions 0, n, 2n, ...
\* (ceil(L/n) of them), one per call, and every call after that returns
\* nullopt, also when the discard of n-1 items ran into the end of A.
C1_StepByPositions ==
  (sc = "StepBy" /\ num >= 1 /\ cnt = <<>>) =>
    /\ out = Prefix(StepByExpected, calls)
    /\ Len(StepByExpected) = CeilDiv(LenA, num)
    /\ (calls > Len(StepByExpected) => last = None)

\* step 2 over three items: the second call yields position 2 while its
\* discard hits the end, the third call reports exhaustion
C1_Witness ==
  /\ sc = "StepBy" /\ num = 2 /\ arr.A = <<0, 1, 1>> /\ cnt = <<>>
  /\ calls = 3 /\ out = <<0, 1>> /\ last = None

\* ---------------------------------------------------------------- C2
SkipExpected == SubSeq(arr.A, num + 1, LenA)

\* C2: for every Array A and k >= 0, A.iter().skip(k) yields the items of A
\* from position k on, in order, which are the items left after pulling and
\* discarding k items by hand, and it yields nothing when k >= L.
C2_SkipSuffix ==
  (sc = "Skip" /\ cnt = <<>>) =>
    /\ out = Prefix(SkipExpected, calls)
    /\ SkipExpected = Remaining(PullTimes(SrcA, num))
    /\ (calls > Len(SkipExpected) => last = None)
    /\ (num >= LenA => out = <<>>)

C2_Witness ==
  /\ sc = "Skip" /\ num = 2 /\ arr.A = <<0, 0, 1>> /\ cnt = <<>>
  /\ calls = 2 /\ out = <<1>> /\ last = None

\* ---------------------------------------------------------------- C3
\* the iterator take(n) was called on
TakeInner == IF sc = "CycleTake" THEN Cycle(SrcA) ELSE SrcA

\* C3: S.take(n) yields the first min(n, L) items of S in order, one per call,
\* and nullopt on every later call, for a finite S (an Array iterator) and for
\* an unbounded S (a Cycle over a non-empty Array).
C3_TakeFirstN ==
  (sc \in {"Take", "CycleTake"} /\ cnt = <<>>) =>
    /\ out = Prefix(FirstItems(TakeInner, num), calls)
    /\ (sc = "Take" => Len(FirstItems(TakeInner, num)) = Min(num, LenA))
    /\ (sc = "CycleTake" /\ LenA > 0 => Len(FirstItems(TakeInner, num)) = num)
    /\ (calls > Len(FirstItems(TakeInner, num)) => last = None)

C3_Witness ==
  /\ sc = "Take" /\ num = 2 /\ arr.A = <<1, 0, 1>> /\ cnt = <<>>
  /\ calls = 4 /\ out = <<1, 0>> /\ last = None

\* ---------------------------------------------------------------- C4
FilterExpected(p) == LET Test(x) == x \in p IN SelectSeq(arr.A, Test)

\* C4: A.iter().filter(p) yields the items of A that satisfy p in their
\* original order, and filter(p).count() + filter(not p).count() equals
\* A.iter().count().
C4_FilterPartition ==
  /\ (sc = "Filter" /\ cnt = <<>>) =>
       /\ out = Prefix(FilterExpected(pred), calls)
       /\ (calls > Len(FilterExpected(pred)) => last = None)
  /\ (sc = "Filter" /\ cnt # <<>> /\ cnt[1] = 0) =>
       /\ cnt[2] = Len(FilterExpected(pred))
       /\ cnt[2] + count(Filter(SrcA, Values \ pred)).n = count(SrcA).n

C4_Witness ==
  /\ sc = "Filter" /\ pred = {1} /\ arr.A = <<0, 1, 0>>
  /\ cnt = <<0, 1>> /\ count(Filter(SrcA, Values \ pred)).n = 2

\* ---------------------------------------------------------------- C5
ZipExpected == [i \in 1..Min(LenA, LenB) |-> <<arr.A[i], arr.B[i]>>]

\* C5: zip(A, B) yields the pairs (A[i], B[i]) for i below min(len A, len B)
\* in order and then nullopt, and zip(A, B).count() equals
\* min(A.count(), B.count()).
C5_ZipPairs ==
  /\ (sc = "Zip" /\ cnt = <<>>) =>
       /\ out = Prefix(ZipExpected, calls)
       /\ (calls > Len(ZipExpected) => last = None)
  /\ (sc = "Zip" /\ cnt # <<>> /\ cnt[1] = 0) =>
       cnt[2] = Min(count(SrcA).n, count(SrcB).n)

C5_Witness ==
  /\ sc = "Zip" /\ arr.A = <<0, 1, 1>> /\ arr.B = <<1, 0>> /\ cnt = <<>>
  /\ calls = 3 /\ out = <<(<<0, 1>>), (<<1, 0>>)>> /\ last = None

\* ---------------------------------------------------------------- C6
\* C6: chain(A, B) yields every item of A in order and then every item of B in
\* order, B is not pulled while A still has an item, and a.chain(b).chain(c)
\* yields the same sequence as a.chain(b.chain(c)).
C6_ChainOrder ==
  /\ (sc = "Chain" /\ cnt = <<>>) =>
       /\ out = Prefix(arr.A \o arr.B, calls)
       /\ (calls > LenA + LenB => last = None)
       /\ (it.first.cursor < LenA => it.second.cursor = 0)
  /\ (sc \in {"ChainLeft", "ChainRight"} /\ cnt = <<>>) =>
       /\ out = Prefix(arr.A \o arr.B \o arr.C, calls)
       /\ (calls > LenA + LenB + LenC => last = None)
       /\ Remaining(Chain(Chain(SrcA, SrcB), SrcC)) = Remaining(Chain(SrcA, Chain(SrcB, SrcC)))

C6_Witness ==
  /\ sc = "ChainRight" /\ arr.A = <<0>> /\ arr.B = <<1, 0>> /\ arr.C = <<1>> /\ cnt = <<>>
  /\ calls = 5 /\ out = <<0, 1, 0, 1>> /\ last = None

\* ---------------------------------------------------------------- C7
InterleaveExpected ==
  LET m == Min(LenA, LenB)
  IN [i \in 1..(LenA + LenB) |->
        IF i <= 2 * m
          THEN (IF i % 2 = 1 THEN arr.A[(i + 1) \div 2] ELSE arr.B[i \div 2])
          ELSE (IF LenA > LenB THEN arr.A[i - m] ELSE arr.B[i - m])]

\* C7: interleave(A, B) yields A[0], B[0], A[1], B[1], ... for the first
\* min(len A, len B) pairs and then the rest of the longer Array in order, each
\* item once, and interleave(A, B).count() equals A.count() + B.count().
C7_InterleaveAll ==
  /\ (sc = "Interleave" /\ cnt = <<>>) =>
       /\ out = Prefix(InterleaveExpected, calls)
       /\ (calls > LenA + LenB => last = None)
  /\ (sc = "Interleave" /\ cnt # <<>> /\ cnt[1] = 0) =>
       cnt[2] = count(SrcA).n + count(SrcB).n

\* the longer side is B: its tail B[1], B[2] runs consecutively
C7_Witness ==
  /\ sc = "Interleave" /\ arr.A = <<0>> /\ arr.B = <<1, 1, 0>> /\ cnt = <<>>
  /\ calls = 5 /\ out = <<0, 1, 1, 0>> /\ last = None

\* ---------------------------------------------------------------- C8
InterleaveShortestLen == IF LenA <= LenB THEN 2 * LenA ELSE 2 * LenB + 1
InterleaveShortestExpected ==
  [i \in 1..InterleaveShortestLen |->
     IF i % 2 = 1 THEN arr.A[(i + 1) \div 2] ELSE arr.B[i \div 2]]

\* C8: interleave_shortest(A, B) alternates starting with A and returns nullopt
\* from the first call whose due side is exhausted, without falling back to the
\* other side: 2*len(A) items when len(A) <= len(B), 2*len(B)+1 otherwise.
C8_InterleaveShortestLength ==
  (sc = "InterleaveShortest" /\ cnt = <<>>) =>
    /\ out = Prefix(InterleaveShortestExpected, calls)
    /\ (calls > InterleaveShortestLen => last = None /\ Len(out) = InterleaveShortestLen)

C8_Witness ==
  /\ sc = "InterleaveShortest" /\ arr.A = <<0, 1, 1>> /\ arr.B = <<1>> /\ cnt = <<>>
  /\ calls = 5 /\ out = <<0, 1, 1>> /\ last = None

\* ---------------------------------------------------------------- C9
\* C9: for an Array of length L >= 1 the i-th item (0-based, i < k) of
\* iter().cycle().take(k) is the Array item at position i mod L, and all k
\* items are yielded; for an Array of length 0 the first next() returns nullopt.
C9_CycleTakeModulo ==
  (sc = "CycleTake" /\ cnt = <<>>) =>
    /\ LenA >= 1 =>
         /\ Len(out) = Min(calls, num)
         /\ \A i \in 0..(Len(out) - 1) : out[i + 1] = arr.A[(i % LenA) + 1]
    /\ (LenA = 0 /\ calls >= 1) => (out = <<>> /\ last = None)

\* four items taken from a two-item Array: the cycle restarted twice
C9_Witness ==
  /\ sc = "CycleTake" /\ num = 4 /\ arr.A = <<0, 1>> /\ cnt = <<>>
  /\ calls = 5 /\ out = <<0, 1, 0, 1>> /\ last = None

\* ---------------------------------------------------------------- C10
\* C10: a Cycle built over an iterator that still has an item never signals
\* exhaustion: each of its next() calls returns an item.
C10_CycleNeverExhausts ==
  (sc = "Cycle" /\ num < LenA /\ calls >= 1) =>
    /\ last # None
    /\ Len(out) = calls

\* a Cycle over the last item of a two-item Array, pulled past three restarts
C10_Witness ==
  /\ sc = "Cycle" /\ num = 1 /\ arr.A = <<0, 1>>
  /\ calls = 4 /\ out = <<1, 1, 1, 1>>

\* ---------------------------------------------------------------- C11
\* no terminal operation has advanced `it` behind the driver's back
Untouched == cnt = <<>> /\ (term = <<>> \/ term[1].op = "collect")

\* the items of s whose key under f occurs at no earlier position, from index i on
RECURSIVE FirstByKey(_, _, _)
FirstByKey(s, f, i) ==
  IF i > Len(s) THEN <<>>
  ELSE (IF \E j \in 1..(i - 1) : f[s[j]] = f[s[i]] THEN <<>> ELSE <<s[i]>>)
       \o FirstByKey(s, f, i + 1)

\* C11: A.iter().unique() yields the first occurrence of each distinct value of
\* A in the order of those first occurrences: no two yielded items are equal
\* and, once it is exhausted, every value of A was yielded.
C11_UniqueFirstOccurrences ==
  (sc = "Unique" /\ Untouched) =>
    /\ out = Prefix(FirstByKey(arr.A, Identity, 1), calls)
    /\ \A i, j \in 1..Len(out) : out[i] = out[j] => i = j
    /\ (calls >= 1 /\ last = None) =>
          {out[i] : i \in 1..Len(out)} = {arr.A[i] : i \in 1..LenA}
    /\ it.set = {out[i] : i \in 1..Len(out)}

C11_Witness ==
  /\ sc = "Unique" /\ arr.A = <<1, 1, 0>> /\ Untouched
  /\ calls = 3 /\ out = <<1, 0>> /\ last = None

\* ---------------------------------------------------------------- C12
\* C12: A.iter().unique_by(key) yields the items of A whose key occurred at no
\* earlier position, in original order: the first item of each key wins.
C12_UniqueByFirstKey ==
  (sc = "UniqueBy" /\ Untouched) =>
    /\ out = Prefix(FirstByKey(arr.A, func, 1), calls)
    /\ \A i, j \in 1..Len(out) : func[out[i]] = func[out[j]] => i = j
    /\ (calls > Len(FirstByKey(arr.A, func, 1)) => last = None)

\* a constant key: only the first item is yielded although 1 differs from 0
C12_Witness ==
  /\ sc = "UniqueBy" /\ arr.A = <<0, 1, 0>> /\ func = [x \in Values |-> 0] /\ Untouched
  /\ calls = 2 /\ out = <<0>> /\ last = None

\* ---------------------------------------------------------------- C13
\* C13: the i-th item of A.iter().enumerate() is the pair (i, A[i]), i counted
\* from 0 and advanced by one per yielded item; a call that returns nullopt
\* leaves the index as it is.
C13_EnumerateIndex ==
  (sc = "Enumerate" /\ Untouched) =>
    /\ out = Prefix([i \in 1..LenA |-> <<i - 1, arr.A[i]>>], calls)
    /\ it.index = Len(out)
    /\ (calls > LenA => last = None)

C13_Witness ==
  /\ sc = "Enumerate" /\ arr.A = <<1, 0>> /\ Untouched
  /\ calls = 4 /\ out = <<(<<0, 1>>), (<<1, 0>>)>> /\ last = None /\ it.index = 2

\* ---------------------------------------------------------------- C14
\* the items of the iterator map(f) was called on
MapSource == IF sc = "FilterMap" THEN LET Test(x) == x \in pred IN SelectSeq(arr.A, Test)
                                 ELSE arr.A

\* C14: the i-th item of S.map(f) is f(S[i]); f was invoked once for each item
\* the Map yielded and never in a call that returned nullopt, and the Map
\* returns nullopt exactly in the calls in which its inner iterator does.
C14_MapAppliesOnce ==
  (sc \in {"Map", "FilterMap"} /\ Untouched) =>
    /\ out = Prefix([i \in 1..Len(MapSource) |-> func[MapSource[i]]], calls)
    /\ it.applied = Len(out)
    /\ (calls >= 1 => (last = None <=> calls > Len(MapSource)))

C14_Witness ==
  /\ sc = "Map" /\ arr.A = <<0, 1, 1>> /\ func = [x \in Values |-> 1 - x] /\ Untouched
  /\ calls = 5 /\ out = <<1, 0, 0>> /\ it.applied = 3 /\ last = None

\* ---------------------------------------------------------------- C15
\* the length of the longest prefix of s whose items all satisfy p
PrefixWhile(s, p) ==
  CHOOSE k \in 0..Len(s) :
    /\ \A i \in 1..k : s[i] \in p
    /\ (k = Len(s) \/ s[k + 1] \notin p)

\* C15: A.iter().skip_while(p) discards the longest prefix of A whose items
\* all satisfy p and yields every later item unchanged, also those that
\* satisfy p; p is evaluated in the first call only, on the discarded items and
\* on the first item that fails it.
C15_SkipWhileOnce ==
  (sc = "SkipWhile" /\ Untouched) =>
    /\ out = Prefix(SubSeq(arr.A, PrefixWhile(arr.A, pred) + 1, LenA), calls)
    /\ it.evals = IF calls = 0 THEN <<>> ELSE Prefix(arr.A, PrefixWhile(arr.A, pred) + 1)
    /\ it.skipped = (calls >= 1)

\* the third item satisfies p again and is yielded without being tested
C15_Witness ==
  /\ sc = "SkipWhile" /\ arr.A = <<1, 0, 1>> /\ pred = {1} /\ Untouched
  /\ calls = 2 /\ out = <<0, 1>> /\ it.evals = <<1, 0>>

\* ---------------------------------------------------------------- C16
\* C16: A.iter().take_while(p) yields the longest prefix of A whose items all
\* satisfy p; the call in which an item fails p or the inner iterator is
\* exhausted latches stopped_taking, and no later call pulls the inner
\* iterator or evaluates p, also when later items of A satisfy p.
C16_TakeWhileLatch ==
  (sc = "TakeWhile" /\ Untouched) =>
    LET k == PrefixWhile(arr.A, pred)
    IN /\ out = Prefix(SubSeq(arr.A, 1, k), calls)
       /\ it.stopped_taking = (calls > k)
       /\ it.pulls = Min(calls, k + 1)
       /\ it.evals = Prefix(arr.A, Min(calls, k + 1))
       /\ (calls > k => last = None)

\* the third item satisfies p but is never pulled
C16_Witness ==
  /\ sc = "TakeWhile" /\ arr.A = <<1, 0, 1>> /\ pred = {1} /\ Untouched
  /\ calls = 4 /\ out = <<1>> /\ it.pulls = 2 /\ it.evals = <<1, 0>> /\ last = None

\* ---------------------------------------------------------------- C17
\* every item a bounded iterator yields when it is pulled to exhaustion
RECURSIVE Drain(_)
Drain(i) ==
  LET r == next(i)
  IN IF r.v = None THEN <<>> ELSE <<r.v[1]>> \o Drain(r.self)

Collected == term # <<>> /\ term[1].op = "collect" /\ term[1].ret

\* C17: for a bounded pipeline with side-effect-free functions, the Array
\* built by collect / from_iterator has as many elements as the iterator
\* yields, and iterating that Array yields the same items in the same order.
C17_CollectRoundTrip ==
  (Collected /\ calls = term[1].at) =>
    /\ Len(arr.R) = Len(Drain(it))
    /\ term[1].val = Len(Drain(it))
    /\ Drain(ArrayIterator("R")) = Drain(it)
    /\ (sc = "Filter" /\ calls = 0) => arr.R = FilterExpected(pred)
    /\ (sc = "FilterMap" /\ calls = 0) =>
          arr.R = [i \in 1..Len(MapSource) |-> func[MapSource[i]]]
    /\ (sc = "CycleTake" /\ calls = 0 /\ LenA >= 1) =>
          arr.R = [i \in 1..num |-> arr.A[((i - 1) % LenA) + 1]]

\* the pipeline of test_collect_works in small: filter, then map, collected
C17_Witness ==
  /\ sc = "FilterMap" /\ arr.A = <<0, 1, 0>> /\ pred = {0} /\ func = [x \in Values |-> 1 - x]
  /\ Collected /\ calls = 0 /\ arr.R = <<1, 1>> /\ term[1].val = 2

\* ---------------------------------------------------------------- C18
\* C18: on an iterator over an Array of L items from which j <= L items were
\* pulled with next(), count() returns L - j.
C18_CountRemaining ==
  (sc = "Iter" /\ cnt # <<>>) => cnt[2] = LenA - Min(cnt[1], LenA)

C18_Witness ==
  /\ sc = "Iter" /\ LenA = 3 /\ cnt = <<2, 1>>

\* ---------------------------------------------------------------- C19
\* C19 (as claimed): count() drains the iterator it is called on: after it
\* returned, next() on the same iterator object returns nullopt and a second
\* count() on it returns 0.
C19_CountDrains ==
  cnt # <<>> =>
    /\ (calls > cnt[1] => last = None)
    /\ count(it).n = 0

\* ---------------------------------------------------------------- C20
\* the items of A that an iterator still holds after `at` calls of next()
Rest(at) == SubSeq(arr.A, Min(at, LenA) + 1, LenA)

\* C20: on an iterator over the finite sequence S, all(p) is true iff every
\* item of S satisfies p, any(p) iff some item does, none(p) iff no item does;
\* on the empty sequence all = true, any = false, none = true.
C20_AllAnyNone ==
  (sc = "Iter" /\ term # <<>>) =>
    LET t == term[1]
        S == Rest(t.at)
    IN /\ t.op = "all" => (t.val <=> \A i \in 1..Len(S) : S[i] \in t.p)
       /\ t.op = "any" => (t.val <=> \E i \in 1..Len(S) : S[i] \in t.p)
       /\ t.op = "none" => (t.val <=> ~\E i \in 1..Len(S) : S[i] \in t.p)
       /\ (S = <<>> /\ t.op = "all") => t.val = TRUE
       /\ (S = <<>> /\ t.op = "any") => t.val = FALSE
       /\ (S = <<>> /\ t.op = "none") => t.val = TRUE

\* all(p) is false because of the last item only
C20_Witness ==
  /\ sc = "Iter" /\ arr.A = <<1, 1, 0>> /\ term # <<>>
  /\ term[1].op = "all" /\ term[1].at = 0 /\ term[1].p = {1} /\ term[1].val = FALSE

\* the empty sequence: any(p) is false for the predicate that accepts everything
C20_WitnessEmpty ==
  /\ sc = "Iter" /\ arr.A = <<>> /\ term # <<>>
  /\ term[1].op = "any" /\ term[1].p = Values /\ term[1].val = FALSE

\* ---------------------------------------------------------------- C21
\* the length of the shortest prefix of s that ends with an item of `stop`,
\* the length of s when it holds no such item
UpToFirst(s, stop) ==
  IF \E i \in 1..Len(s) : s[i] \in stop
    THEN CHOOSE i \in 1..Len(s) : s[i] \in stop /\ \A j \in 1..(i - 1) : s[j] \notin stop
    ELSE Len(s)

\* C21: all(p) evaluates p on the items in pull order, once each, up to and
\* including the first item that falsifies p and on no later item; any(p) and
\* none(p) do so up to and including the first item that satisfies p.
C21_ShortCircuit ==
  (sc = "Iter" /\ term # <<>> /\ term[1].op \in {"all", "any", "none"}) =>
    LET t == term[1]
        S == Rest(t.at)
        stop == IF t.op = "all" THEN Values \ t.p ELSE t.p
    IN t.evals = Prefix(S, UpToFirst(S, stop))

\* any(p) stops at the first item: the two later items are not tested
C21_Witness ==
  /\ sc = "Iter" /\ arr.A = <<1, 0, 1>> /\ term # <<>>
  /\ term[1].op = "any" /\ term[1].at = 0 /\ term[1].p = {1}
  /\ term[1].val = TRUE /\ term[1].evals = <<1>>

\* ---------------------------------------------------------------- C22
\* C22: find(p) returns the first item in pull order that satisfies p, and
\* the empty optional when no remaining item satisfies p, also when there is
\* no remaining item at all.
C22_FindFirst ==
  (sc = "Iter" /\ term # <<>> /\ term[1].op = "find") =>
    LET t == term[1]
        S == Rest(t.at)
        k == UpToFirst(S, t.p)
    IN /\ (\E i \in 1..Len(S) : S[i] \in t.p) =>
            /\ t.val = Some(S[k])
            /\ Len(t.evals) = k
            /\ \A j \in 1..(k - 1) : S[j] \notin t.p
       /\ (\A i \in 1..Len(S) : S[i] \notin t.p) => t.val = None
       /\ S = <<>> => t.val = None

\* two items satisfy p: the earlier one is returned after two evaluations
C22_Witness ==
  /\ sc = "Iter" /\ arr.A = <<0, 1, 1>> /\ term # <<>>
  /\ term[1].op = "find" /\ term[1].at = 0 /\ term[1].p = {1}
  /\ term[1].val = Some(1) /\ term[1].evals = <<0, 1>>

\* no match on a non-empty sequence: the empty optional
C22_WitnessNoMatch ==
  /\ sc = "Iter" /\ arr.A = <<0, 0>> /\ term # <<>>
  /\ term[1].op = "find" /\ term[1].at = 0 /\ term[1].p = {1} /\ term[1].val = None

\* ---------------------------------------------------------------- C23
\* C23: max() and min() return the empty optional on an empty sequence;
\* otherwise max() returns an item that no item exceeds and min() an item that
\* exceeds no item, and among equal extremal items the one seen first.
C23_MaxMinFirstOnTies ==
  (sc = "Iter" /\ term # <<>> /\ term[1].op \in {"max", "min"}) =>
    LET t == term[1]
        S == Rest(t.at)
    IN /\ S = <<>> => t.val = None
       /\ S # <<>> =>
            /\ t.pos + 1 \in 1..Len(S)
            /\ t.val = Some(S[t.pos + 1])
            /\ t.op = "max" =>
                 /\ \A i \in 1..Len(S) : S[i] <= t.val[1]
                 /\ \A i \in 1..t.pos : S[i] < t.val[1]
            /\ t.op = "min" =>
                 /\ \A i \in 1..Len(S) : S[i] >= t.val[1]
                 /\ \A i \in 1..t.pos : S[i] > t.val[1]

\* the maximum occurs twice: the item at place 1 is returned, not the one at place 2
C23_Witness ==
  /\ sc = "Iter" /\ arr.A = <<0, 1, 1>> /\ term # <<>>
  /\ term[1].op = "max" /\ term[1].at = 0 /\ term[1].val = Some(1) /\ term[1].pos = 1

C23_WitnessMin ==
  /\ sc = "Iter" /\ arr.A = <<1, 0, 0>> /\ term # <<>>
  /\ term[1].op = "min" /\ term[1].at = 0 /\ term[1].val = Some(0) /\ term[1].pos = 1

C23_WitnessEmpty ==
  /\ sc = "Iter" /\ arr.A = <<>> /\ term # <<>>
  /\ term[1].op = "max" /\ term[1].val = None

\* ---------------------------------------------------------------- C24
\* the left fold best := cmp(s[i], best) over s[2..n], started from best = s[1]
RECURSIVE FoldBest(_, _, _)
FoldBest(s, cmp, n) ==
  IF n = 1 THEN s[1] ELSE Choose(cmp, s[n], FoldBest(s, cmp, n - 1))

C24_WitnessEmpty ==
  /\ sc = "Iter" /\ term # <<>> /\ term[1].op = "min_by" /\ term[1].src = <<>>
  /\ term[1].val = None

\* ---------------------------------------------------------------- C25
\* f(...f(f(init, s[1]), s[2])..., s[n])
RECURSIVE LeftFold(_, _, _, _)
LeftFold(s, init, f, n) ==
  IF n = 0 THEN init ELSE Fold(f, LeftFold(s, init, f, n - 1), s[n])

\* C25: fold(init, f) returns f(...f(f(init, x0), x1)..., x(L-1)) for the
\* items x0..x(L-1) in pull order and init on an empty sequence, and calls f
\* once per item, with the accumulator first; sum() equals fold(0, +).
C25_FoldLeft ==
  /\ (sc = "Iter" /\ term # <<>> /\ term[1].op = "fold") =>
       LET t == term[1]
           S == Rest(t.at)
       IN /\ t.val = LeftFold(S, t.p.init, t.p.func, Len(S))
          /\ Len(t.evals) = Len(S)
          /\ t.evals = [i \in 1..Len(S) |-> <<LeftFold(S, t.p.init, t.p.func, i - 1), S[i]>>]
          /\ S = <<>> => t.val = t.p.init
  /\ (sc = "Iter" /\ term # <<>> /\ term[1].op = "sum") =>
       LET t == term[1]
           S == Rest(t.at)
       IN /\ t.val = LeftFold(S, 0, "plus", Len(S))
          /\ t.val = fold(Pulled("A", t.at), 0, "plus").r

\* acc - v is neither commutative nor associative: (1 - 1) - 0 - 1 = -1
C25_Witness ==
  /\ sc = "Iter" /\ arr.A = <<1, 0, 1>> /\ term # <<>> /\ term[1].op = "fold"
  /\ term[1].at = 0 /\ term[1].p = [init |-> 1, func |-> "minus"] /\ term[1].val = -1
  /\ Len(term[1].evals) = 3

C25_WitnessSum ==
  /\ sc = "Iter" /\ arr.A = <<1, 0, 1>> /\ term # <<>> /\ term[1].op = "sum"
  /\ term[1].at = 0 /\ term[1].val = 2

\* ---------------------------------------------------------------- C26
\* the characters of the view sep
View(sep) == Prefix(sep.buf, sep.len)

\* the textual forms of s[1..n] with v between consecutive ones
RECURSIVE Joined(_, _, _)
Joined(s, v, n) ==
  IF n = 0 THEN <<>>
  ELSE IF n = 1 THEN to_string(s[1])
  ELSE Joined(s, v, n - 1) \o v \o to_string(s[n])

\* C26 (as claimed): join(sep) returns the textual forms of the items in pull
\* order with exactly L-1 copies of sep between consecutive items and no
\* leading or trailing separator, and the empty string on an empty sequence,
\* for every separator.
C26_JoinSeparators ==
  (sc = "Iter" /\ term # <<>> /\ term[1].op = "join") =>
    LET t == term[1]
        S == Rest(t.at)
    IN /\ t.val = Joined(S, View(t.p), Len(S))
       /\ S = <<>> => t.val = <<>>

\* ---------------------------------------------------------------- C27
\* start, start + 1, ..., end
RangeExpected(r) == [i \in 1..(r.end - r.start + 1) |-> r.start + i - 1]

\* C27 (as claimed): for every Range(start, end) with start < end, iter()
\* yields start, start + 1, ..., end in increasing order, end included
\* (end - start + 1 items), and then signals exhaustion.
C27_RangeInclusive ==
  (sc = "Range" /\ Untouched) =>
    /\ out = Prefix(RangeExpected(it.range), calls)
    /\ (calls > Len(RangeExpected(it.range)) => last = None)

\* ---------------------------------------------------------------- C28
\* the pipelines whose outermost adapter is not a Cycle and whose sources stay
\* exhausted: every adapter but Cycle is the outermost one of some pipeline
NoCycleOutside ==
  sc \in {"StepBy", "Map", "FilterMap", "Skip", "SkipWhile", "Enumerate", "Filter", "Chain",
          "ChainLeft", "ChainRight", "Zip", "Take", "CycleTake", "TakeWhile", "Interleave",
          "InterleaveShortest", "Unique", "UniqueBy"}

\* C28: no resurrection: once a next() call on an adapter other than Cycle
\* has returned nullopt, the next call of next() on it returns nullopt too
\* (and so does every later one).
C28_NoResurrection ==
  [][(NoCycleOutside /\ calls >= 1 /\ last = None /\ calls' = calls + 1) => last' = None]_vars

\* B ends first; the zip reports exhaustion in the second and the third call
C28_Witness ==
  /\ sc = "Zip" /\ arr.A = <<0, 1, 1>> /\ arr.B = <<1>> /\ Untouched
  /\ calls = 3 /\ Len(out) = 1 /\ last = None

CycleItems == {arr.A[i] : i \in (num + 1)..LenA}

\* the terminal operation recorded in t has a `return` in its loop and the
\* cycle holds an item that takes it
Stops(t) ==
  CASE t.op = "all" -> CycleItems \cap (Values \ t.p) # {}
    [] t.op \in {"any", "none", "find"} -> CycleItems \cap t.p # {}
    [] OTHER -> FALSE

\* C30 (as claimed): every terminal operation called directly on a Cycle over
\* a non-empty sequence never returns.
C30_AlwaysDiverges ==
  (sc = "Cycle" /\ num < LenA /\ term # <<>>) => ~term[1].ret

\* C30 (amended): a terminal operation called directly on a Cycle over a
\* non-empty sequence never returns, except that all(p) returns when the
\* cycle holds an item that falsifies p and any(p), none(p) and find(p) return
\* when it holds an item that satisfies p.
C30_DivergesUnlessStopped ==
  (sc = "Cycle" /\ num < LenA /\ term # <<>>) => (term[1].ret <=> Stops(term[1]))

\* fold on a two-item cycle does not return
C30_Witness ==
  /\ sc = "Cycle" /\ num = 0 /\ arr.A = <<0, 1>> /\ term # <<>>
  /\ term[1].op = "fold" /\ ~term[1].ret

\* find(p) on a cycle without an item that satisfies p does not return
C30_WitnessFind ==
  /\ sc = "Cycle" /\ num = 1 /\ arr.A = <<1, 0>> /\ term # <<>>
  /\ term[1].op = "find" /\ term[1].p = {1} /\ ~term[1].ret


\* ---------------------------------------------------------------- C31
\* C31: take(n) calls next() on its inner iterator at most n times over its
\* whole lifetime; once the remaining count is zero a next() call returns
\* nullopt and makes no call on the inner iterator, however many calls follow.
C31_TakePullsAtMostN ==
  sc \in {"Take", "CycleTake"} =>
    /\ it.pulls <= num
    /\ (Untouched => it.pulls = Min(calls, num))
    /\ (Untouched /\ calls > num => last = None)

\* two calls after the count of take(1) reached zero, over a source that has more
C31_Witness ==
  /\ sc = "Take" /\ num = 1 /\ arr.A = <<0, 1, 1>> /\ Untouched
  /\ calls = 3 /\ it.num = 0 /\ it.pulls = 1 /\ last = None

\* ---------------------------------------------------------------- C32
\* C32 as stated: the remaining count is decremented on a successful pull only,
\* so it equals n minus the number of items take(n) has yielded.
C32_CountIsNMinusYielded ==
  (sc \in {"Take", "CycleTake"} /\ Untouched) => it.num = num - Len(out)

\* C32, amended: the remaining count is decremented on every next() call made
\* while it is not zero, also when the inner iterator signals exhaustion in that
\* call: it equals n minus the number of pulls take(n) made of its inner
\* iterator, which is at most n minus the number of items yielded.
C32_CountIsNMinusPulls ==
  sc \in {"Take", "CycleTake"} =>
    /\ it.num = num - it.pulls
    /\ (Untouched => it.num = num - Min(calls, num) /\ it.num <= num - Len(out))

\* take(3) over a one-item Array after two calls: one item yielded, count 1
C32_Witness ==
  /\ sc = "Take" /\ num = 3 /\ arr.A = <<1>> /\ Untouched
  /\ calls = 2 /\ out = <<1>> /\ last = None /\ it.num = 1


WritesTo(writes, index) == {k \in 1..Len(writes) : writes[k][1] = index}

\* C34: in Array::from_iterator the size learned by counting a clone equals the
\* number of items the fill pass over the original yields: every index written
\* is below the allocated size and each slot 0..size-1 is written exactly once,
\* for every bounded pipeline with side-effect-free functions.
C34_FillMatchesCount ==
  Collected =>
    LET size == term[1].val
        writes == term[1].evals
    IN /\ Len(writes) = size
       /\ \A k \in 1..Len(writes) : writes[k][1] < size
       /\ \A index \in 0..(size - 1) : Cardinality(WritesTo(writes, index)) = 1
       /\ (calls = term[1].at => size = Len(Drain(it)))

\* collect on a unique() from which one item was pulled: the clone carries the set
C34_Witness ==
  /\ sc = "Unique" /\ arr.A = <<0, 1, 0>> /\ Collected /\ term[1].at = 1
  /\ term[1].val = 1 /\ term[1].evals = <<<<0, 1>>>>


\* ---------------------------------------------------------------- C35
\* C35: max_by and min_by leave the source unchanged: after the call on an
\* iterator that yields references into an Array, every element of the Array,
\* the first one included, has the value it had before the call.
C35_MaxByLeavesSource ==
  (term # <<>> /\ term[1].op \in {"max_by", "min_by"} /\ term[1].ret) =>
    arr.A = term[1].src


\* ---------------------------------------------------------------- C36
\* C36: a short-circuiting terminal operation consumes the iterator it is
\* called on up to and including the item that stopped it: when find(p) or
\* any(p) returned because the k-th item of the Array matched, the next call of
\* next() on the same object yields the item after the k-th (nullopt when the
\* k-th is the last).
C36_ConsumedUpToMatch ==
  (/\ sc = "Iter" /\ term # <<>> /\ term[1].op \in {"find", "any"} /\ term[1].ret
   /\ calls = term[1].at + 1
   /\ \E i \in 1..Len(Rest(term[1].at)) : Rest(term[1].at)[i] \in term[1].p) =>
    LET k == term[1].at + UpToFirst(Rest(term[1].at), term[1].p)
    IN last = IF k + 1 <= LenA THEN Some(arr.A[k + 1]) ELSE None


\* ---------------------------------------------------------------- C37
\* C37: for every Range(start, end) over a w-bit unsigned type with start < end
\* the RangeIterator signals exhaustion, also when end is the largest value of
\* the type: it yields no more than end - start + 1 items, and once it has
\* yielded end its cursor is beyond end (the increment did not wrap around to a
\* value <= end), so that the next call returns nullopt.
C37_RangeExhausts ==
  (sc = "Range" /\ Untouched) =>
    /\ Len(out) <= it.range.end - it.range.start + 1
    /\ (out # <<>> /\ out[Len(out)] = it.range.end => it.cursor > it.range.end)


\* ---------------------------------------------------------------- C38
\* C38 as stated: when an n-item source is materialized with
\* source.iter().map(f).collect, f is invoked exactly n times in total.
C38_MapperOncePerItem ==
  (sc = "Map" /\ Collected /\ term[1].at = 0) => term[1].applied = LenA

\* C38, amended: collect walks the pipeline twice, once to count a clone and
\* once to fill, and f is invoked once per item in each walk: exactly 2n times
\* in total for source.iter().map(f).collect on an n-item source, and twice the
\* number of collected items for any pipeline that ends in map(f).
C38_MapperTwicePerItem ==
  (sc \in {"Map", "FilterMap"} /\ Collected) =>
    /\ term[1].applied = 2 * term[1].val
    /\ (sc = "Map" => term[1].val = LenA - Min(term[1].at, LenA))

\* three items mapped and collected: six invocations of f
C38_Witness ==
  /\ sc = "Map" /\ arr.A = <<0, 1, 0>> /\ Collected /\ term[1].at = 0
  /\ term[1].val = 3 /\ term[1].applied = 6


\* ---------------------------------------------------------------- C39
\* C39: step_by(0) on a non-empty Array yields exactly one item: the first
\* next() returns the first item after its discard loop, whose counter starts at
\* 1 and does not meet 0, pulled the inner iterator until exhaustion; every
\* later next() returns nullopt.
C39_StepByZeroYieldsOne ==
  (sc = "StepBy" /\ num = 0 /\ LenA > 0 /\ Untouched /\ calls >= 1) =>
    /\ out = <<arr.A[1]>>
    /\ it.inner.cursor = LenA
    /\ (calls > 1 => last = None)

C39_Witness ==
  /\ sc = "StepBy" /\ num = 0 /\ arr.A = <<0, 1, 1>> /\ Untouched
  /\ calls = 2 /\ out = <<0>> /\ last = None /\ it.inner.cursor = 3


\* ---------------------------------------------------------------- C40
\* C40: a Cycle restarts from the state the iterator had when cycle() was
\* called: built after j < L items were pulled from an iterator over an L-item
\* Array, it yields the items at positions j..L-1 over and over and never an
\* item at a position 0..j-1.
C40_CycleRestartsAtCapture ==
  (sc = "Cycle" /\ num < LenA /\ Untouched /\ calls >= 1) =>
    /\ \A i \in 0..(Len(out) - 1) : out[i + 1] = arr.A[num + (i % (LenA - num)) + 1]
    /\ it.original.cursor = num
    /\ it.inner.cursor = num + ((calls - 1) % (LenA - num)) + 1

\* a Cycle built after one pull of a three-item Array, pulled past two restarts
C40_Witness ==
  /\ sc = "Cycle" /\ num = 1 /\ arr.A = <<1, 0, 0>> /\ Untouched
  /\ calls = 5 /\ out = <<0, 0, 0, 0, 0>> /\ it.inner.cursor = 2

====
